---------------------------- MODULE Spec2Model ----------------------------
(***************************************************************************)
(* State-machine model of the serial event loop of egui_serial_term        *)
(* (src/src/serial_tty/event_loop.rs): the control channel and its         *)
(* PeekableReceiver, the write queue (State / Writing), the reader path    *)
(* (tty_read), the writer path (tty_write) and the poll loop (spawn).      *)
(*                                                                         *)
(* The worker thread is one process whose position is pc; producers, the   *)
(* device and a consumer of the shared terminal state are the environment. *)
(* The terminal parser (vte ansi::Processor) and the FairMutex are         *)
(* external crates: they are modelled by the interface the loop uses       *)
(* (advance, stop_sync, sync_timeout, sync_bytes_count; lease, lock,       *)
(* try_lock_unfair, lock_unfair).                                          *)
(***************************************************************************)
EXTENDS Integers, Sequences, FiniteSets, TLC

VARIABLES
    pc,            \* position of the worker thread in spawn's closure
    registered,    \* the device is registered with the poller
    interest,      \* interest.writable (spawn, line 241)
    events,        \* readiness events of this iteration not yet dispatched
    chan,          \* mpsc channel: messages sent and not yet received
    peeked,        \* PeekableReceiver.peeked
    senders,       \* number of live Sender handles of the channel
    write_list,    \* State.write_list
    writing,       \* State.writing
    current,       \* tty_write's local `current`
    parser,        \* State.parser: [pending, count] (sync timeout set, sync buffer length)
    unprocessed,   \* tty_read: buf[..unprocessed]
    processed,     \* tty_read: processed
    rd,            \* tty_read: what this invocation has done so far
    nextHolder,    \* FairMutex.next: "none", "worker" (lease) or "consumer"
    dataHolder,    \* FairMutex.data: "none", "worker" or "consumer"
    nSent,         \* number of messages sent so far (message ids)
    nBytes,        \* number of payload bytes sent so far (byte ids)
    consumed,      \* history: messages returned by recv in drain_recv_channel
    accepted,      \* history: bytes the device accepted (counts of Ok(n) writes)
    delivered,     \* history: bytes the device returned from successful reads
    fed,           \* history: bytes passed to parser.advance
    lastRead,      \* history: summary of the tty_read invocation of this iteration
    flushes,       \* history: forced flushes since the parser last saw a byte
    ioAfterStop,   \* history: a device call or a recv happened after Shutdown was consumed
    prLog,         \* history of the PeekableReceiver harness (SpecPR)
    io,            \* history: the failed call, zero write or re-registration of the last step
    sendLog,       \* history: the result of the last SerialEventLoopSender::send
    dev            \* the serial device and the result of opening it (SpecOpen)

vars == << pc, registered, interest, events, chan, peeked, senders, write_list,
           writing, current, parser, unprocessed, processed, rd, nextHolder,
           dataHolder, nSent, nBytes, consumed, accepted, delivered, fed,
           lastRead, flushes, ioAfterStop, prLog, io, sendLog, dev >>

----------------------------------------------------------------------------
(* Bounds of the model *)

\* messages a producer sends in one run
MaxMsgs == 2
\* longest Input payload
MaxPayload == 2
\* bytes the device delivers to reads in one run
MaxDelivered == 3
\* messages sent plus bytes delivered in one run
MaxInputs == 3
\* READ_BUFFER_SIZE (0x10_0000 in the source), scaled down
READ_BUFFER_SIZE == 3
\* MAX_LOCKED_READ (u16::MAX in the source), scaled down; smaller than READ_BUFFER_SIZE
MAX_LOCKED_READ == 2

\* Option::None of a message, and the other results of receiving
NoMsg == [t |-> "None", id |-> 0, d |-> <<>>]
EmptyErr == [t |-> "Empty", id |-> 0, d |-> <<>>]
DisconnectedErr == [t |-> "Disconnected", id |-> 0, d |-> <<>>]
Panic == [t |-> "panic", id |-> 0, d |-> <<>>]

\* Option::None of a Writing
NoWriting == [source |-> <<>>, written |-> -1]

\* cfg(target_os = "linux")
TargetOsLinux == TRUE

\* Bytes a device read can return, as the parser tells them apart: the begin marker
\* and the end marker of a synchronized update. Outside an update the end marker is
\* plain data; inside one the begin marker is buffered like any other byte.
ByteKinds == {"B", "E"}

\* A readiness event: serial token readable, writable, both, neither; unknown token
EventKinds == {"R", "W", "RW", "N", "U"}

Min(a, b) == IF a < b THEN a ELSE b

RECURSIVE SeqsUpTo(_, _)
SeqsUpTo(S, n) ==
    IF n = 0 THEN { <<>> }
    ELSE LET shorter == SeqsUpTo(S, n - 1)
         IN  shorter \cup { Append(s, x) : s \in { t \in shorter : Len(t) = n - 1 }, x \in S }

RECURSIVE Flatten(_)
Flatten(ss) == IF ss = <<>> THEN <<>> ELSE Head(ss) \o Flatten(Tail(ss))

\* SerialMsg
Input(id, bytes) == [t |-> "Input", id |-> id, d |-> bytes]
Resize(id) == [t |-> "Resize", id |-> id, d |-> <<>>]
Shutdown(id) == [t |-> "Shutdown", id |-> id, d |-> <<>>]

----------------------------------------------------------------------------
(* PeekableReceiver *)

\* mpsc::Receiver::try_recv on a channel holding ch with snd live senders
TryRecv(ch, snd) ==
    IF ch # <<>> THEN [res |-> Head(ch), chan |-> Tail(ch)]
    ELSE IF snd = 0 THEN [res |-> DisconnectedErr, chan |-> ch]
    ELSE [res |-> EmptyErr, chan |-> ch]

\* Result::ok
OkOf(res) == IF res \in {EmptyErr, DisconnectedErr} THEN NoMsg ELSE res

PeekAlwaysFetches(pk, ch, snd) ==
    LET r == TryRecv(ch, snd)
    IN  [res |-> OkOf(r.res), peeked |-> OkOf(r.res), chan |-> r.chan]

\* PeekableReceiver::peek: [res, peeked, chan]
Peek(pk, ch, snd) ==
    IF pk = NoMsg
    THEN LET r == TryRecv(ch, snd)
         IN  [res |-> OkOf(r.res), peeked |-> OkOf(r.res), chan |-> r.chan]
    ELSE [res |-> pk, peeked |-> pk, chan |-> ch]

RecvSwallowsDisconnect(pk, ch, snd) ==
    IF pk # NoMsg
    THEN [res |-> pk, peeked |-> NoMsg, chan |-> ch]
    ELSE LET r == TryRecv(ch, snd)
         IN  [res |-> OkOf(r.res), peeked |-> NoMsg, chan |-> r.chan]

\* PeekableReceiver::recv: [res, peeked, chan]; res = Panic on a disconnected channel
Recv(pk, ch, snd) ==
    IF pk # NoMsg
    THEN [res |-> pk, peeked |-> NoMsg, chan |-> ch]
    ELSE LET r == TryRecv(ch, snd)
         IN  IF r.res = DisconnectedErr
             THEN [res |-> Panic, peeked |-> NoMsg, chan |-> r.chan]
             ELSE [res |-> OkOf(r.res), peeked |-> NoMsg, chan |-> r.chan]

----------------------------------------------------------------------------
(* State and Writing *)

\* Writing::new
NewWriting(c) == [source |-> c, written |-> 0]

\* Writing::remaining_bytes
remaining_bytes(w) == SubSeq(w.source, w.written + 1, Len(w.source))

\* Writing::advance
advance(w, n) == [w EXCEPT !.written = w.written + n]

\* Writing::finished
finished(w) == w.written >= Len(w.source)

\* State::needs_write
needs_write(wr, wl) == wr # NoWriting \/ wl # <<>>

\* State::goto_next: [writing, write_list]
goto_next(wl) ==
    IF wl = <<>> THEN [writing |-> NoWriting, write_list |-> wl]
    ELSE [writing |-> NewWriting(Head(wl)), write_list |-> Tail(wl)]

\* State::ensure_next: [writing, write_list]
ensure_next(wr, wl) ==
    IF wr = NoWriting THEN goto_next(wl) ELSE [writing |-> wr, write_list |-> wl]

----------------------------------------------------------------------------
(* ansi::Processor, as the loop uses it *)

\* Processor::advance for one byte
Advance(p, b) ==
    IF p.pending
    THEN IF b = "E" THEN [pending |-> FALSE, count |-> 0]
         ELSE [pending |-> TRUE, count |-> p.count + 1]
    ELSE IF b = "B" THEN [pending |-> TRUE, count |-> 0]
         ELSE p

\* the for loop of tty_read, lines 179-181
RECURSIVE AdvanceAll(_, _)
AdvanceAll(p, bytes) ==
    IF bytes = <<>> THEN p ELSE AdvanceAll(Advance(p, Head(bytes)), Tail(bytes))

\* Processor::stop_sync
StopSync(p) == [pending |-> FALSE, count |-> 0]

\* Processor::sync_bytes_count
sync_bytes_count(p) == p.count

\* the wait's timeout: Some exactly when a synchronized update is pending
HasTimeout(p) == p.pending


----------------------------------------------------------------------------
(* Initial state: SerialEventLoop::new, channel(), and the locals of spawn *)

\* no call failed in the last step
NoIo == [op |-> "none", k |-> "none"]

\* the device is not part of the run: the loop is given an open SerialTty
NoDev == [phase |-> "none"]

\* no send has returned yet
NoSend == [res |-> "none", msg |-> NoMsg]

IdleRd == [first |-> "none", tried |-> FALSE, forced |-> FALSE]

NoPrLog == [got |-> <<>>, lastPeek |-> NoMsg, op |-> "none", pre |-> "none",
            res |-> NoMsg]

\* no tty_read invocation has finished yet
NoRead == [first |-> "none", tried |-> FALSE, forced |-> FALSE, fed |-> 0,
           woke |-> FALSE, res |-> "none", dropped |-> 0]

Init ==
    /\ pc = "init"
    /\ registered = FALSE
    /\ interest = FALSE
    /\ events = <<>>
    /\ chan = <<>>
    /\ peeked = NoMsg
    /\ senders = 2   \* the loop's own tx and one SerialEventLoopSender
    /\ write_list = <<>>
    /\ writing = NoWriting
    /\ current = NoWriting
    /\ parser = [pending |-> FALSE, count |-> 0]
    /\ unprocessed = <<>>
    /\ processed = 0
    /\ rd = IdleRd
    /\ nextHolder = "none"
    /\ dataHolder = "none"
    /\ nSent = 0
    /\ nBytes = 0
    /\ consumed = <<>>
    /\ accepted = <<>>
    /\ delivered = <<>>
    /\ fed = <<>>
    /\ lastRead = NoRead
    /\ flushes = 0
    /\ ioAfterStop = FALSE
    /\ prLog = NoPrLog
    /\ io = NoIo
    /\ sendLog = NoSend
    /\ dev = NoDev

chanVars == << chan, peeked, senders, nSent, nBytes >>
queueVars == << write_list, writing, current >>
readVars == << unprocessed, processed, rd >>
lockVars == << nextHolder, dataHolder >>
histVars == << consumed, accepted, delivered, fed, lastRead, flushes, ioAfterStop, prLog,
              sendLog, dev >>

\* a Shutdown message has been consumed by the loop
StopSeen == \E i \in DOMAIN consumed : consumed[i].t = "Shutdown"

----------------------------------------------------------------------------
(* Producers: SerialEventLoopSender::send, and dropping the sender *)

Payload(len) == [i \in 1..len |-> nBytes + i]

NewMsgs ==
    { Input(nSent + 1, Payload(len)) : len \in 0..MaxPayload }
        \cup { Resize(nSent + 1), Shutdown(nSent + 1) }

\* a loop object that keeps no Sender of its own
LoopHoldsNoSender == IF pc = "harness" THEN 0 ELSE 0

\* Sender handles the loop object itself holds (SerialEventLoop.tx); the harness
\* of SpecPR is a PeekableReceiver without a loop object
LoopSenders == IF pc = "harness" THEN 0 ELSE 1

\* the Receiver lives in the loop object: it is dropped when the loop thread
\* unwinds from a panic, and kept when the thread returns (self, state)
RxAlive == pc # "panicked"

SendAlwaysOk(alive) == "Ok"

\* lines 444-448: Err(Send(msg)) from the channel's SendError, Ok(()) otherwise
SendResult(alive) == IF alive THEN "Ok" ELSE "Err"

\* SerialEventLoopSender::send, lines 443-449
Send ==
    /\ senders > LoopSenders
    /\ nSent < MaxMsgs
    /\ nSent + Len(delivered) < MaxInputs
    /\ \E m \in NewMsgs :
        LET res == SendResult(RxAlive)
        IN  /\ chan' = IF RxAlive THEN Append(chan, m) ELSE chan
            /\ nSent' = IF res = "Ok" THEN nSent + 1 ELSE nSent
            /\ nBytes' = IF res = "Ok" THEN nBytes + Len(m.d) ELSE nBytes
            /\ sendLog' = [res |-> res, msg |-> IF res = "Err" THEN m ELSE NoMsg]
    /\ UNCHANGED << pc, registered, interest, events, peeked, senders, queueVars,
                    parser, readVars, lockVars, consumed, accepted, delivered, fed,
                    lastRead, flushes, ioAfterStop, prLog, io, dev >>

NotifySendsAlways(bytes) == TRUE

\* lines 383-385: if bytes.len() == 0 { return; }
NotifySends(bytes) == Len(bytes) # 0

\* SerialNotifier::notify, lines 377-390: the result of send is dropped; sendLog
\* keeps the bytes of the call as the Input they would make
Notify ==
    /\ senders > LoopSenders
    /\ nSent < MaxMsgs
    /\ nSent + Len(delivered) < MaxInputs
    /\ \E len \in 0..MaxPayload :
        LET bytes == Payload(len)
            m == Input(nSent + 1, bytes)
        IN  IF NotifySends(bytes)
            THEN LET res == SendResult(RxAlive)
                 IN  /\ chan' = IF RxAlive THEN Append(chan, m) ELSE chan
                     /\ nSent' = IF res = "Ok" THEN nSent + 1 ELSE nSent
                     /\ nBytes' = IF res = "Ok" THEN nBytes + Len(m.d) ELSE nBytes
                     /\ sendLog' = [res |-> res, msg |-> m]
            ELSE /\ sendLog' = [res |-> "none", msg |-> m]
                 /\ UNCHANGED << chan, nSent, nBytes >>
    /\ UNCHANGED << pc, registered, interest, events, peeked, senders, queueVars,
                    parser, readVars, lockVars, consumed, accepted, delivered, fed,
                    lastRead, flushes, ioAfterStop, prLog, io, dev >>

DropSender ==
    /\ senders > LoopSenders
    /\ senders' = senders - 1
    /\ UNCHANGED << pc, registered, interest, events, chan, peeked, nSent, nBytes,
                    queueVars, parser, readVars, lockVars, histVars, io >>

----------------------------------------------------------------------------
(* The consumer of the shared terminal state: FairMutex::lock and unlock *)

ConsumerAcquireNext ==
    /\ nextHolder = "none"
    /\ dataHolder # "consumer"
    /\ nextHolder' = "consumer"
    /\ UNCHANGED << pc, registered, interest, events, chanVars, queueVars, parser,
                    readVars, dataHolder, histVars, io >>

ConsumerAcquireData ==
    /\ nextHolder = "consumer"
    /\ dataHolder = "none"
    /\ nextHolder' = "none"
    /\ dataHolder' = "consumer"
    /\ UNCHANGED << pc, registered, interest, events, chanVars, queueVars, parser,
                    readVars, histVars, io >>

ConsumerRelease ==
    /\ dataHolder = "consumer"
    /\ dataHolder' = "none"
    /\ UNCHANGED << pc, registered, interest, events, chanVars, queueVars, parser,
                    readVars, nextHolder, histVars, io >>

----------------------------------------------------------------------------
(* The worker thread: spawn *)

\* lines 34-35: the interests every register and reregister call passes
INTERESTS == {"READABLE", "WRITABLE"}

\* what the poller watches the device for: register (line 247) and reregister
\* (line 355) both pass INTERESTS, deregister (line 362) ends it
RegisteredFor == IF registered THEN INTERESTS ELSE {}

\* registry().register(...), lines 243-254
Register ==
    /\ pc = "init"
    /\ \E ok \in BOOLEAN :
        IF ok THEN registered' = TRUE /\ pc' = "poll" /\ io' = NoIo
        ELSE /\ registered' = FALSE
             /\ pc' = "done"
             /\ io' = [op |-> "register", k |-> "Other"]
    /\ UNCHANGED << interest, events, chanVars, queueVars, parser, readVars,
                    lockVars, histVars >>

\* the readiness events one wait can return: the device is the only registered
\* source, so a wait reports one event for it ("1 is enough", line 256)
EventSeqs == { << e >> : e \in EventKinds }

\* poll.poll returns Ok with readiness events (line 276)
PollReady ==
    /\ pc = "poll"
    /\ \E evs \in EventSeqs : events' = evs
    /\ pc' = "woke"
    /\ io' = NoIo
    /\ UNCHANGED << registered, interest, chanVars, queueVars, parser, readVars,
                    lockVars, histVars >>

PollTimeoutAlways == TRUE

\* the wait has a timeout exactly when the parser has a sync timeout (lines 269-272)
PollHasTimeout == HasTimeout(parser)

\* poll.poll returns Ok with no event: the timeout elapsed
PollTimeout ==
    /\ pc = "poll"
    /\ PollHasTimeout
    /\ events' = <<>>
    /\ pc' = "woke"
    /\ io' = NoIo
    /\ UNCHANGED << registered, interest, chanVars, queueVars, parser, readVars,
                    lockVars, histVars >>

PollErrorAlwaysLeaves(kind) == TRUE

\* lines 277-283: the match on the kind of a poll error
PollErrorLeaves(kind) == kind # "Interrupted"

\* poll.poll returns Err: Interrupted continues, anything else leaves the loop
PollError ==
    /\ pc = "poll"
    /\ \E kind \in {"Interrupted", "Other"} :
        /\ pc' = IF PollErrorLeaves(kind) THEN "exit" ELSE "poll"
        /\ io' = [op |-> "poll", k |-> kind]
    /\ UNCHANGED << registered, interest, events, chanVars, queueVars, parser,
                    readVars, lockVars, histVars >>

\* line 287: events.is_empty() && self.rx.peek().is_none()
CheckTimeout ==
    /\ pc = "woke"
    /\ IF events = <<>>
       THEN LET r == Peek(peeked, chan, senders)
            IN  /\ peeked' = r.peeked
                /\ chan' = r.chan
                /\ pc' = IF r.res = NoMsg THEN "flush" ELSE "drain"
       ELSE /\ pc' = "drain"
            /\ UNCHANGED << peeked, chan >>
    /\ io' = NoIo
    /\ UNCHANGED << registered, interest, events, senders, nSent, nBytes, queueVars,
                    parser, readVars, lockVars, histVars >>

\* lines 288-290: stop_sync under terminal.lock(), a wake notification, continue
TimeoutFlush ==
    /\ pc = "flush"
    /\ nextHolder = "none"
    /\ dataHolder = "none"
    /\ parser' = StopSync(parser)
    /\ flushes' = Min(flushes + 1, 2)
    /\ pc' = "poll"
    /\ io' = NoIo
    /\ UNCHANGED << registered, interest, events, chanVars, queueVars, readVars,
                    lockVars, consumed, accepted, delivered, fed, lastRead,
                    ioAfterStop, prLog, sendLog, dev >>

DrainTakesOne(pk, ch, snd, taken) ==
    LET r == Recv(pk, ch, snd)
    IN  IF r.res = Panic
        THEN [taken |-> taken, peeked |-> r.peeked, chan |-> r.chan, end |-> "panic"]
        ELSE IF r.res = NoMsg
        THEN [taken |-> taken, peeked |-> r.peeked, chan |-> r.chan, end |-> "empty"]
        ELSE [taken |-> Append(taken, r.res), peeked |-> r.peeked, chan |-> r.chan,
              end |-> IF r.res.t = "Shutdown" THEN "shutdown" ELSE "empty"]

\* the while loop of drain_recv_channel: [taken, peeked, chan, end]
RECURSIVE DrainLoop(_, _, _, _)
DrainLoop(pk, ch, snd, taken) ==
    LET r == Recv(pk, ch, snd)
    IN  IF r.res = Panic
        THEN [taken |-> taken, peeked |-> r.peeked, chan |-> r.chan, end |-> "panic"]
        ELSE IF r.res = NoMsg
        THEN [taken |-> taken, peeked |-> r.peeked, chan |-> r.chan, end |-> "empty"]
        ELSE IF r.res.t = "Shutdown"
        THEN [taken |-> Append(taken, r.res), peeked |-> r.peeked, chan |-> r.chan,
              end |-> "shutdown"]
        ELSE DrainLoop(r.peeked, r.chan, snd, Append(taken, r.res))

ResizeQueued(msgs) == [i \in DOMAIN msgs |-> msgs[i].d]

\* the payloads of the Input messages of msgs, in order: what drain_recv_channel
\* pushes on write_list (line 113); a Resize only calls on_resize, which does
\* nothing (mod.rs lines 149-152)
InputsOf(msgs) ==
    LET idx == { i \in DOMAIN msgs : msgs[i].t = "Input" }
        RECURSIVE pick(_)
        pick(i) == IF i > Len(msgs) THEN <<>>
                   ELSE IF i \in idx THEN << msgs[i].d >> \o pick(i + 1)
                   ELSE pick(i + 1)
    IN  pick(1)

DrainIgnoresShutdown(end) == IF events = <<>> THEN "rereg" ELSE "dispatch"

\* lines 294-296: where the loop goes after drain_recv_channel
AfterDrain(end) ==
    IF end = "panic" THEN "panicked"
    ELSE IF end = "shutdown" THEN "exit"
    ELSE IF events = <<>> THEN "rereg" ELSE "dispatch"

\* drain_recv_channel, lines 110-122
Drain ==
    /\ pc = "drain"
    /\ LET r == DrainLoop(peeked, chan, senders, <<>>)
       IN  /\ peeked' = r.peeked
           /\ chan' = r.chan
           /\ consumed' = consumed \o r.taken
           /\ write_list' = write_list \o InputsOf(r.taken)
           /\ pc' = AfterDrain(r.end)
    /\ ioAfterStop' = (ioAfterStop \/ StopSeen)
    /\ io' = NoIo
    /\ UNCHANGED << registered, interest, events, senders, nSent, nBytes, writing,
                    current, parser, readVars, lockVars, accepted, delivered, fed,
                    lastRead, flushes, prLog, sendLog, dev >>

----------------------------------------------------------------------------
(* Dispatch of the readiness events: the for loop of lines 298-343 *)

ReadableOrNeither(e) == e \in {"R", "RW", "N"}

\* event.token() is SERIAL_TOKEN and event.is_readable() / is_writable()
Readable(e) == e \in {"R", "RW"}
Writable(e) == e \in {"W", "RW"}

\* the for loop goes on to its next event, or ends
NextEvent ==
    /\ events' = Tail(events)
    /\ pc' = IF Tail(events) = <<>> THEN "rereg" ELSE "dispatch"

LeaseOnEveryEvent(e) == TRUE

\* lines 303-306 and 138: tty_read, which begins by taking the lease, is entered
\* for a readable event only
TakesLease(e) == Readable(e)

\* line 303: a readable event enters tty_read, whose first step takes the lease
Dispatch ==
    /\ pc = "dispatch"
    /\ IF TakesLease(Head(events))
       THEN /\ nextHolder = "none"
            /\ nextHolder' = "worker"
            /\ pc' = "read"
       ELSE /\ pc' = "dispatchW"
            /\ UNCHANGED nextHolder
    /\ io' = NoIo
    /\ UNCHANGED << registered, interest, events, chanVars, queueVars, parser,
                    readVars, dataHolder, histVars >>

----------------------------------------------------------------------------
(* tty_read, lines 125-199: one action per iteration of its loop *)

\* what a device read returns: Ok(chunk) or an error kind
ReadOutcomes ==
    LET free == READ_BUFFER_SIZE - Len(unprocessed)
        budget == Min(MaxDelivered, MaxInputs - nSent) - Len(delivered)
    IN  { [k |-> "Ok", chunk |-> c] : c \in SeqsUpTo(ByteKinds, Min(free, budget)) }
            \cup { [k |-> e, chunk |-> <<>>] : e \in {"WouldBlock", "Interrupted", "EIO", "Other"} }

\* line 194: the wake notification of tty_read
ReadWakes(p, proc) == sync_bytes_count(p) < proc /\ proc > 0

LeaseLeaked == "worker"

\* the lease guard _terminal_lease is dropped when tty_read returns
LeaseDropped == "none"

TerminalKept(holder) == holder

\* the guard in the local terminal (line 139) is dropped when tty_read returns
TerminalDropped(holder) == IF holder = "consumer" THEN "consumer" ELSE "none"

\* tty_read returns: its guards are dropped, and spawn goes on (lines 306-324)
ReadReturn(res, err, unp2, p2, proc2, fedNow, r2) ==
    /\ lastRead' = [first |-> r2.first, tried |-> r2.tried, forced |-> r2.forced,
                    fed |-> proc2, woke |-> (res = "Ok" /\ ReadWakes(p2, proc2)),
                    res |-> res, dropped |-> Len(unp2)]
    /\ parser' = p2
    /\ fed' = fed \o fedNow
    /\ flushes' = IF fedNow # <<>> THEN 0 ELSE flushes
    /\ unprocessed' = <<>>
    /\ processed' = 0
    /\ rd' = IdleRd
    /\ nextHolder' = LeaseDropped
    /\ dataHolder' = TerminalDropped(dataHolder)
    /\ IF res = "Ok" THEN pc' = "dispatchW" /\ UNCHANGED events
       ELSE IF TargetOsLinux /\ err = "EIO" THEN NextEvent
       ELSE pc' = "exit" /\ UNCHANGED events

\* tty_read stays in its loop, or blocks in lock_unfair
ReadContinue(unp2, p2, proc2, fedNow, r2, locked, pc2) ==
    /\ unprocessed' = unp2
    /\ processed' = proc2
    /\ parser' = p2
    /\ fed' = fed \o fedNow
    /\ flushes' = IF fedNow # <<>> THEN 0 ELSE flushes
    /\ rd' = r2
    /\ dataHolder' = IF locked THEN "worker" ELSE dataHolder
    /\ pc' = pc2
    /\ UNCHANGED << nextHolder, events, lastRead >>

LockedCapNever(proc) == FALSE

\* line 188: the invocation ends once processed reaches MAX_LOCKED_READ
LockedCapReached(proc) == proc >= MAX_LOCKED_READ

\* lines 173-190: parse buf[..unprocessed] under the lock
Parse(unp2, r2) ==
    LET p2 == AdvanceAll(parser, unp2)
        proc2 == processed + Len(unp2)
    IN  IF LockedCapReached(proc2)
        THEN ReadReturn("Ok", "none", <<>>, p2, proc2, unp2, r2)
        ELSE ReadContinue(<<>>, p2, proc2, unp2, r2, TRUE, "read")

ForceAlways(unp) == TRUE

ForceNever(unp) == FALSE

\* line 164: None if unprocessed >= READ_BUFFER_SIZE
ForceAtCap(unp) == Len(unp) >= READ_BUFFER_SIZE

\* lines 158-171: take the terminal lock if it is not held yet
LockStage(unp2, r2) ==
    IF dataHolder = "worker" THEN Parse(unp2, r2)
    ELSE IF dataHolder = "none" THEN Parse(unp2, [r2 EXCEPT !.tried = TRUE])
    ELSE IF ForceAtCap(unp2)
    THEN ReadContinue(unp2, parser, processed, <<>>,
                      [r2 EXCEPT !.tried = TRUE, !.forced = TRUE], FALSE, "readlock")
    ELSE ReadContinue(unp2, parser, processed, <<>>, [r2 EXCEPT !.tried = TRUE],
                      FALSE, "read")

\* how the first read of an invocation ended
FirstOf(out) ==
    IF out.k = "Ok" THEN (IF out.chunk = <<>> THEN "zero" ELSE "data")
    ELSE IF out.k \in {"WouldBlock", "Interrupted"} THEN "block"
    ELSE "err"

ZeroReadNeverBreaks(chunk, unp) == FALSE

\* line 145: Ok(0) if unprocessed == 0 => break
ZeroReadBreaks(chunk, unp) == chunk = <<>> /\ unp = <<>>

\* lines 141-156: one device read and what follows it in the same iteration
TtyReadIter ==
    /\ pc = "read"
    /\ \E out \in ReadOutcomes :
        LET r2 == IF rd.first = "none" THEN [rd EXCEPT !.first = FirstOf(out)] ELSE rd
            unp2 == unprocessed \o out.chunk
        IN  /\ delivered' = delivered \o out.chunk
            /\ io' = IF out.k = "Ok" THEN NoIo ELSE [op |-> "read", k |-> out.k]
            /\ IF out.k = "Ok"
               THEN IF ZeroReadBreaks(out.chunk, unprocessed)
                    THEN ReadReturn("Ok", "none", unp2, parser, processed, <<>>, r2)
                    ELSE LockStage(unp2, r2)
               ELSE IF out.k \in {"WouldBlock", "Interrupted"}
               THEN IF unprocessed = <<>>
                    THEN ReadReturn("Ok", "none", unp2, parser, processed, <<>>, r2)
                    ELSE LockStage(unp2, r2)
               ELSE ReadReturn("Err", out.k, unp2, parser, processed, <<>>, r2)
    /\ ioAfterStop' = (ioAfterStop \/ StopSeen)
    /\ UNCHANGED << registered, interest, chanVars, queueVars, consumed, accepted,
                    prLog, sendLog, dev >>

\* line 165: lock_unfair returns once the consumer has released the terminal
ForcedLock ==
    /\ pc = "readlock"
    /\ dataHolder = "none"
    /\ Parse(unprocessed, rd)
    /\ io' = NoIo
    /\ UNCHANGED << registered, interest, chanVars, queueVars, consumed, accepted,
                    delivered, ioAfterStop, prLog, sendLog, dev >>

----------------------------------------------------------------------------
(* tty_write, lines 202-234: one action per device write *)

\* line 326: a writable event enters tty_write: ensure_next, then take_current
DispatchW ==
    /\ pc = "dispatchW"
    /\ IF Writable(Head(events))
       THEN LET en == ensure_next(writing, write_list)
            IN  /\ write_list' = en.write_list
                /\ writing' = NoWriting
                /\ current' = en.writing
                /\ IF en.writing = NoWriting THEN NextEvent
                   ELSE pc' = "write" /\ UNCHANGED events
       ELSE /\ NextEvent
            /\ UNCHANGED queueVars
    /\ io' = NoIo
    /\ UNCHANGED << registered, interest, chanVars, parser, readVars, lockVars,
                    histVars >>

\* what a device write of buf returns: Ok(n) or an error kind
WriteOutcomes(buf) ==
    { [k |-> "Ok", n |-> n] : n \in 0..Len(buf) }
        \cup { [k |-> e, n |-> 0] : e \in {"WouldBlock", "Interrupted", "Other"} }

AdvanceByOne(w, n) == [w EXCEPT !.written = w.written + 1]

\* line 214: current.advance(n)
AdvanceCurrent(w, n) == advance(w, n)

\* a device write has returned Ok(0)
ZeroWrite == [op |-> "write", k |-> "Zero"]

ZeroWriteGoesOn(n) == FALSE

\* line 209: the arm Ok(0) of the match on the result of the write
ZeroWriteEnds(n) == n = 0

\* self.tty.write(current.remaining_bytes()) and the match on its result
WriteStep ==
    /\ pc = "write"
    /\ \E out \in WriteOutcomes(remaining_bytes(current)) :
        IF out.k = "Ok" /\ ~ZeroWriteEnds(out.n)
        THEN LET cur2 == AdvanceCurrent(current, out.n)
                 g == goto_next(write_list)
             IN  /\ accepted' = accepted \o SubSeq(remaining_bytes(current), 1, out.n)
                 /\ IF finished(cur2)
                    THEN /\ write_list' = g.write_list
                         /\ writing' = NoWriting
                         /\ current' = g.writing
                         /\ IF g.writing = NoWriting THEN NextEvent
                            ELSE pc' = "write" /\ UNCHANGED events
                    ELSE /\ current' = cur2
                         /\ UNCHANGED << write_list, writing, pc, events >>
                 /\ io' = IF out.n = 0 THEN ZeroWrite ELSE NoIo
        ELSE /\ writing' = current     \* set_current(Some(current))
             /\ current' = NoWriting
             /\ UNCHANGED << write_list, accepted >>
             /\ io' = IF out.k = "Ok" THEN ZeroWrite ELSE [op |-> "write", k |-> out.k]
             /\ IF out.k = "Other" THEN pc' = "exit" /\ UNCHANGED events
                ELSE NextEvent
    /\ ioAfterStop' = (ioAfterStop \/ StopSeen)
    /\ UNCHANGED << registered, interest, chanVars, parser, readVars, lockVars,
                    consumed, delivered, fed, lastRead, flushes, prLog, sendLog, dev >>

----------------------------------------------------------------------------
(* End of an iteration, and leaving the loop *)

ReregisterAlways(nw, flag) == TRUE

\* line 347: needs_write != interest.writable
NeedsReregister(nw, flag) == nw # flag

\* lines 345-358: re-register when needs_write changed; unwrap panics on failure
Reregister ==
    /\ pc = "rereg"
    /\ lastRead' = NoRead
    /\ LET nw == needs_write(writing, write_list)
       IN  IF NeedsReregister(nw, interest)
           THEN /\ interest' = nw
                /\ \E ok \in BOOLEAN :
                    IF ok THEN pc' = "poll" /\ io' = [op |-> "reregister", k |-> "Ok"]
                    ELSE /\ pc' = "panicked"
                         /\ io' = [op |-> "reregister", k |-> "Other"]
           ELSE /\ pc' = "poll"
                /\ io' = NoIo
                /\ UNCHANGED interest
    /\ UNCHANGED << registered, events, chanVars, queueVars, parser, readVars,
                    lockVars, consumed, accepted, delivered, fed, flushes,
                    ioAfterStop, prLog, sendLog, dev >>

\* lines 361-364: deregister, then return (self, state)
Exit ==
    /\ pc = "exit"
    /\ registered' = FALSE
    /\ pc' = "done"
    /\ UNCHANGED << interest, events, chanVars, queueVars, parser, readVars,
                    lockVars, histVars, io >>

\* the steps of the worker thread
Worker ==
    \/ Register
    \/ PollTimeout
    \/ CheckTimeout
    \/ TimeoutFlush
    \/ Drain
    \/ Dispatch
    \/ TtyReadIter
    \/ ForcedLock
    \/ DispatchW
    \/ WriteStep
    \/ Reregister
    \/ Exit

\* the steps of the environment: the device, the producers, the consumer
Environment ==
    \/ PollReady
    \/ PollError
    \/ Send
    \/ ConsumerAcquireNext
    \/ ConsumerAcquireData
    \/ ConsumerRelease

Next == Worker \/ Environment

Spec == Init /\ [][Next]_vars

\* the loop with producers that also drop their SerialEventLoopSender
NextDrop ==
    \/ Worker
    \/ Environment
    \/ DropSender

SpecDrop == Init /\ [][NextDrop]_vars

\* the loop with SerialNotifier as its only producer
NextNotify ==
    \/ Worker
    \/ PollReady
    \/ PollError
    \/ Notify
    \/ ConsumerAcquireNext
    \/ ConsumerAcquireData
    \/ ConsumerRelease

SpecNotify == Init /\ [][NextNotify]_vars

\* a wait that returns a writable event while the loop has asked for write
\* readiness (it re-registered with output pending)
PollWritable == PollReady /\ interest /\ Writable(Head(events'))

\* a device write that accepts at least one byte
WriteProgress == WriteStep /\ Len(accepted') > Len(accepted)

\* The worker thread is scheduled, a timed wait ends, a lock the worker waits for
\* is granted when it keeps becoming free; a consumer that can take the terminal
\* takes it and releases it within finite time. Nothing is assumed of the device
\* or of the producers.
FairSpec ==
    /\ Spec
    /\ SF_vars(Worker)
    /\ WF_vars(ConsumerAcquireData)
    /\ WF_vars(ConsumerRelease)

\* FairSpec with a willing device: while the loop has asked for write readiness
\* writable events keep occurring, and writes keep accepting bytes
FairDeviceSpec ==
    /\ FairSpec
    /\ SF_vars(PollWritable)
    /\ SF_vars(WriteProgress)

----------------------------------------------------------------------------
(* PeekableReceiver on its own: any interleaving of send, drop, peek and recv *)

InitPR ==
    /\ pc = "harness"
    /\ registered = FALSE
    /\ interest = FALSE
    /\ events = <<>>
    /\ chan = <<>>
    /\ peeked = NoMsg
    /\ senders = 2
    /\ write_list = <<>>
    /\ writing = NoWriting
    /\ current = NoWriting
    /\ parser = [pending |-> FALSE, count |-> 0]
    /\ unprocessed = <<>>
    /\ processed = 0
    /\ rd = IdleRd
    /\ nextHolder = "none"
    /\ dataHolder = "none"
    /\ nSent = 0
    /\ nBytes = 0
    /\ consumed = <<>>
    /\ accepted = <<>>
    /\ delivered = <<>>
    /\ fed = <<>>
    /\ lastRead = NoRead
    /\ flushes = 0
    /\ ioAfterStop = FALSE
    /\ prLog = NoPrLog
    /\ io = NoIo
    /\ sendLog = NoSend
    /\ dev = NoDev

IsMsg(m) == m.t \in {"Input", "Resize", "Shutdown"}

\* what try_recv would find: a message, an empty channel, or a disconnected one
ChannelIs ==
    IF peeked # NoMsg \/ chan # <<>> THEN "pending"
    ELSE IF senders = 0 THEN "disconnected"
    ELSE "empty"

PRPeek ==
    /\ pc = "harness"
    /\ LET r == Peek(peeked, chan, senders)
       IN  /\ peeked' = r.peeked
           /\ chan' = r.chan
           /\ prLog' = [prLog EXCEPT !.lastPeek = r.res, !.op = "peek",
                                     !.pre = ChannelIs, !.res = r.res]
    /\ UNCHANGED << pc, registered, interest, events, senders, nSent, nBytes,
                    queueVars, parser, readVars, lockVars, consumed, accepted,
                    delivered, fed, lastRead, flushes, ioAfterStop, io,
                    sendLog, dev >>

PRRecv ==
    /\ pc = "harness"
    /\ LET r == Recv(peeked, chan, senders)
       IN  /\ peeked' = r.peeked
           /\ chan' = r.chan
           /\ pc' = IF r.res = Panic THEN "panicked" ELSE "harness"
           /\ prLog' = [got |-> IF IsMsg(r.res) THEN Append(prLog.got, r.res)
                                ELSE prLog.got,
                        lastPeek |-> NoMsg, op |-> "recv", pre |-> ChannelIs,
                        res |-> r.res]
    /\ UNCHANGED << registered, interest, events, senders, nSent, nBytes,
                    queueVars, parser, readVars, lockVars, consumed, accepted,
                    delivered, fed, lastRead, flushes, ioAfterStop, io,
                    sendLog, dev >>

NextPR ==
    \/ Send
    \/ DropSender
    \/ PRPeek
    \/ PRRecv

SpecPR == InitPR /\ [][NextPR]_vars

----------------------------------------------------------------------------
(* Opening the device: serial_tty::new (mod.rs), prolific_apple_patch::open and *)
(* unix::new, each applied once to a device and a configuration (SpecOpen)      *)

\* values of SerialTtyOptions, two of each
Parities == {"None", "Even"}
FlowControls == {"None", "Hardware"}
DataBitsSet == {"Seven", "Eight"}
StopBitsSet == {"One", "Two"}
BaudRates == {0, 9600, 115200}

\* SerialTtyOptions without name and timeout
Configs == [parity : Parities, flow_control : FlowControls, data_bits : DataBitsSet,
            stop_bits : StopBitsSet, baud_rate : BaudRates]

\* the line settings: raw mode, parity, flow control, data bits and stop bits live
\* in the flag words c_iflag, c_oflag, c_lflag and c_cflag; the speed does not
TermiosFields == {"raw", "parity", "flow_control", "data_bits", "stop_bits", "baud_rate"}
FlagFields == TermiosFields \ {"baud_rate"}

\* the settings a device can be found in before it is opened
InitialSettings ==
    { [raw |-> FALSE, parity |-> "None", flow_control |-> "None", data_bits |-> "Eight",
       stop_bits |-> "One", baud_rate |-> 9600],
      [raw |-> TRUE, parity |-> "Even", flow_control |-> "Hardware", data_bits |-> "Seven",
       stop_bits |-> "Two", baud_rate |-> 115200] }

\* can the path be opened
Paths == {"ok", "missing", "denied"}

\* tcsetattr on a device that takes over the fields in honours and keeps the rest
\* (tcsetattr reports success when any of the changes could be made)
TcSetAttr(actual, wanted, honours) ==
    LET Take(f) == IF f \in honours THEN wanted[f] ELSE actual[f]
    IN  [raw |-> Take("raw"), parity |-> Take("parity"),
         flow_control |-> Take("flow_control"), data_bits |-> Take("data_bits"),
         stop_bits |-> Take("stop_bits"), baud_rate |-> Take("baud_rate")]

\* lines 174-178: CREAD | CLOCAL and cfmakeraw (which also selects CS8, no parity)
MakeRaw(tio) == [tio EXCEPT !.raw = TRUE, !.data_bits = "Eight", !.parity = "None"]

\* lines 188-191: the four flag words differ
FlagsDiffer(a, b) == \E f \in FlagFields : a[f] # b[f]

\* termios::get_termios, lines 51-61: the device's settings with both speeds B9600
get_termios(actual) == [actual EXCEPT !.baud_rate = 9600]

\* set_termios, lines 71-76: cfsetispeed and cfsetospeed only for a baud rate above 0
SetSpeed(tio, baud_rate) == IF baud_rate > 0 THEN baud_rate ELSE tio.baud_rate

\* lines 208-211 and set_termios lines 71-76: the fields taken from the configuration
Configure(tio, cfg) ==
    [tio EXCEPT !.parity = cfg.parity, !.flow_control = cfg.flow_control,
                !.data_bits = cfg.data_bits, !.stop_bits = cfg.stop_bits,
                !.baud_rate = SetSpeed(tio, cfg.baud_rate)]

\* the calls of prolific_apple_patch::open that can fail
PatchedFailures ==
    {"none", "tiocexcl", "tcgetattr", "fcntl_clear", "get_termios", "set_termios",
     "fcntl_nonblock"}

\* wrote: the speed in the termios that the last tcsetattr of set_termios passed
\* to the device, -1 when open did not get that far
OpenResult(res, actual, owners, closes) ==
    [result |-> res, actual |-> actual, owners |-> owners, closes |-> closes, wrote |-> -1]

\* prolific_apple_patch::open, lines 149-238: [result, actual, owners, closes]
OpenPatched(path, cfg, actual, honours, fail) ==
    IF path # "ok" THEN OpenResult("panic", actual, {}, 0)                \* unwrap, line 158
    ELSE IF fail = "tiocexcl" THEN OpenResult("Err", actual, {}, 0)       \* line 164
    ELSE IF fail = "tcgetattr" THEN OpenResult("panic", actual, {}, 0)    \* unwrap, line 169
    ELSE LET tio1 == MakeRaw(actual)
             a1 == TcSetAttr(actual, tio1, honours)                       \* line 181
         IN  IF FlagsDiffer(a1, tio1) THEN OpenResult("Err", a1, {}, 0)   \* lines 188-197
             ELSE IF fail \in {"fcntl_clear", "get_termios", "set_termios"}
             THEN OpenResult("Err", a1, {}, 0)                            \* lines 205, 207, 213
             ELSE LET tio2 == Configure(get_termios(a1), cfg)
                      a2 == TcSetAttr(a1, tio2, honours)                  \* line 80
                  IN  IF fail = "fcntl_nonblock"
                      THEN [OpenResult("panic", a2, {}, 0)                \* assert_eq, line 219
                                EXCEPT !.wrote = tio2.baud_rate]
                      ELSE [OpenResult("handle", a2, {"stream"}, 0)
                                EXCEPT !.wrote = tio2.baud_rate]

\* serial_tty::new, mod.rs lines 156-183; SerialStream::open is mio_serial's
New(path, cfg, actual, honours, ports) ==
    IF ~ports THEN OpenResult("Err", actual, {}, 0)                       \* line 181
    ELSE IF path # "ok" THEN OpenResult("Err", actual, {}, 0)             \* line 177
    ELSE OpenResult("handle", TcSetAttr(actual, Configure(MakeRaw(actual), cfg), honours),
                    {"stream"}, 0)

\* the calls of unix::new that can fail once the port is open
UnixFailures == {"none", "pair", "register", "set_nonblocking", "fcntl"}

\* the configuration unix::new opens with: the baud rate and serialport's defaults
UnixConfig(cfg) ==
    [parity |-> "None", flow_control |-> "None", data_bits |-> "Eight",
     stop_bits |-> "One", baud_rate |-> cfg.baud_rate]

\* unix::new, unix.rs lines 38-96: the descriptor of the TTYPort is also given to
\* an OwnedFd (line 62), so two objects own it and each closes it when dropped
NewUnix(path, cfg, actual, honours, ports, fail) ==
    IF ~ports THEN OpenResult("Err", actual, {}, 0)                       \* line 94
    ELSE IF path # "ok" THEN OpenResult("Err", actual, {}, 0)             \* line 60
    ELSE LET a == TcSetAttr(actual, Configure(MakeRaw(actual), UnixConfig(cfg)), honours)
         IN  IF fail \in {"pair", "register", "set_nonblocking"}
             THEN OpenResult("Err", a, {}, 2)                             \* lines 67-71
             ELSE IF fail = "fcntl" THEN OpenResult("panic", a, {}, 2)    \* line 84
             ELSE OpenResult("handle", a, {"file", "port"}, 0)

NoConfig == [parity |-> "none", flow_control |-> "none", data_bits |-> "none",
             stop_bits |-> "none", baud_rate |-> 0]

\* a device nobody has opened yet
ClosedDev(path, actual) ==
    [phase |-> "closed", entry |-> "none", path |-> path, req |-> NoConfig,
     before |-> actual, actual |-> actual, result |-> "none", owners |-> {},
     closes |-> 0, wrote |-> -1]

\* the state after an open entry point has returned or panicked
Opened(entry, cfg, r) ==
    [phase |-> IF r.result = "handle" THEN "open" ELSE "failed", entry |-> entry,
     path |-> dev.path, req |-> cfg, before |-> dev.actual, actual |-> r.actual,
     result |-> r.result, owners |-> r.owners, closes |-> r.closes, wrote |-> r.wrote]

loopVars == << pc, registered, interest, events, chanVars, queueVars, parser, readVars,
              lockVars, consumed, accepted, delivered, fed, lastRead, flushes,
              ioAfterStop, prLog, io, sendLog >>

TtyNew ==
    /\ dev.phase = "closed"
    /\ \E cfg \in Configs, honours \in SUBSET TermiosFields, ports \in BOOLEAN :
        dev' = Opened("new", cfg, New(dev.path, cfg, dev.actual, honours, ports))
    /\ UNCHANGED loopVars

TtyOpenPatched ==
    /\ dev.phase = "closed"
    /\ \E cfg \in Configs, honours \in SUBSET TermiosFields, fail \in PatchedFailures :
        dev' = Opened("patched", cfg, OpenPatched(dev.path, cfg, dev.actual, honours, fail))
    /\ UNCHANGED loopVars

TtyNewUnix ==
    /\ dev.phase = "closed"
    /\ \E cfg \in Configs, honours \in SUBSET TermiosFields, ports \in BOOLEAN,
          fail \in UnixFailures :
        dev' = Opened("unix", cfg, NewUnix(dev.path, cfg, dev.actual, honours, ports, fail))
    /\ UNCHANGED loopVars

\* the handle is dropped: every owner of the descriptor closes it
TtyDrop ==
    /\ dev.phase = "open"
    /\ dev' = [dev EXCEPT !.phase = "dropped", !.owners = {},
                          !.closes = dev.closes + Cardinality(dev.owners)]
    /\ UNCHANGED loopVars

InitOpen ==
    /\ pc = "tty"
    /\ registered = FALSE
    /\ interest = FALSE
    /\ events = <<>>
    /\ chan = <<>>
    /\ peeked = NoMsg
    /\ senders = 0
    /\ write_list = <<>>
    /\ writing = NoWriting
    /\ current = NoWriting
    /\ parser = [pending |-> FALSE, count |-> 0]
    /\ unprocessed = <<>>
    /\ processed = 0
    /\ rd = IdleRd
    /\ nextHolder = "none"
    /\ dataHolder = "none"
    /\ nSent = 0
    /\ nBytes = 0
    /\ consumed = <<>>
    /\ accepted = <<>>
    /\ delivered = <<>>
    /\ fed = <<>>
    /\ lastRead = NoRead
    /\ flushes = 0
    /\ ioAfterStop = FALSE
    /\ prLog = NoPrLog
    /\ io = NoIo
    /\ sendLog = NoSend
    /\ dev \in { ClosedDev(path, actual) : path \in Paths, actual \in InitialSettings }

NextOpen ==
    \/ TtyNew
    \/ TtyOpenPatched
    \/ TtyNewUnix
    \/ TtyDrop

SpecOpen == InitOpen /\ [][NextOpen]_vars

----------------------------------------------------------------------------
(* Building the options: SerialTtyOptions and its setters, mod.rs (SpecOpts)    *)

Names == {"/dev/ttyS0", "/dev/ttyUSB0"}

\* timeouts in milliseconds
Timeouts == {100, 500}

OptionFields ==
    {"name", "baud_rate", "data_bits", "flow_control", "parity", "stop_bits", "timeout"}

\* SerialTtyOptions::default, mod.rs lines 45-57
DefaultOptions ==
    [name |-> "/dev/ttyS0", baud_rate |-> 115200, data_bits |-> "Eight",
     flow_control |-> "None", parity |-> "None", stop_bits |-> "One", timeout |-> 100]

set_name(self, path) == [self EXCEPT !.name = path]

set_baud_rate(self, baud_rate) == [self EXCEPT !.baud_rate = baud_rate]

set_data_bits(self, data_bits) == [self EXCEPT !.data_bits = data_bits]

SetFlowControlResetsParity(self, flow_control) ==
    [self EXCEPT !.flow_control = flow_control, !.parity = "None"]

set_flow_control(self, flow_control) == [self EXCEPT !.flow_control = flow_control]

set_parity(self, parity) == [self EXCEPT !.parity = parity]

set_stop_bits(self, stop_bits) == [self EXCEPT !.stop_bits = stop_bits]

set_timeout(self, timeout) == [self EXCEPT !.timeout = timeout]

\* the values a setter is called with
ValuesOf(f) ==
    CASE f = "name" -> Names
      [] f = "baud_rate" -> BaudRates
      [] f = "data_bits" -> DataBitsSet
      [] f = "flow_control" -> FlowControls
      [] f = "parity" -> Parities
      [] f = "stop_bits" -> StopBitsSet
      [] f = "timeout" -> Timeouts

\* the setter of field f
SetField(o, f, v) ==
    CASE f = "name" -> set_name(o, v)
      [] f = "baud_rate" -> set_baud_rate(o, v)
      [] f = "data_bits" -> set_data_bits(o, v)
      [] f = "flow_control" -> set_flow_control(o, v)
      [] f = "parity" -> set_parity(o, v)
      [] f = "stop_bits" -> set_stop_bits(o, v)
      [] f = "timeout" -> set_timeout(o, v)

\* o: the options built so far; prev, field, value: the input, the name and the
\* argument of the last setter call
Built(o, prev, field, value) ==
    [phase |-> "options", o |-> o, prev |-> prev, field |-> field, value |-> value]

SetName ==
    /\ dev.phase = "options"
    /\ \E v \in Names : dev' = Built(set_name(dev.o, v), dev.o, "name", v)
    /\ UNCHANGED loopVars

SetBaudRate ==
    /\ dev.phase = "options"
    /\ \E v \in BaudRates : dev' = Built(set_baud_rate(dev.o, v), dev.o, "baud_rate", v)
    /\ UNCHANGED loopVars

SetDataBits ==
    /\ dev.phase = "options"
    /\ \E v \in DataBitsSet : dev' = Built(set_data_bits(dev.o, v), dev.o, "data_bits", v)
    /\ UNCHANGED loopVars

SetFlowControl ==
    /\ dev.phase = "options"
    /\ \E v \in FlowControls :
          dev' = Built(set_flow_control(dev.o, v), dev.o, "flow_control", v)
    /\ UNCHANGED loopVars

SetParity ==
    /\ dev.phase = "options"
    /\ \E v \in Parities : dev' = Built(set_parity(dev.o, v), dev.o, "parity", v)
    /\ UNCHANGED loopVars

SetStopBits ==
    /\ dev.phase = "options"
    /\ \E v \in StopBitsSet : dev' = Built(set_stop_bits(dev.o, v), dev.o, "stop_bits", v)
    /\ UNCHANGED loopVars

SetTimeout ==
    /\ dev.phase = "options"
    /\ \E v \in Timeouts : dev' = Built(set_timeout(dev.o, v), dev.o, "timeout", v)
    /\ UNCHANGED loopVars

InitOpts ==
    /\ pc = "options"
    /\ registered = FALSE
    /\ interest = FALSE
    /\ events = <<>>
    /\ chan = <<>>
    /\ peeked = NoMsg
    /\ senders = 0
    /\ write_list = <<>>
    /\ writing = NoWriting
    /\ current = NoWriting
    /\ parser = [pending |-> FALSE, count |-> 0]
    /\ unprocessed = <<>>
    /\ processed = 0
    /\ rd = IdleRd
    /\ nextHolder = "none"
    /\ dataHolder = "none"
    /\ nSent = 0
    /\ nBytes = 0
    /\ consumed = <<>>
    /\ accepted = <<>>
    /\ delivered = <<>>
    /\ fed = <<>>
    /\ lastRead = NoRead
    /\ flushes = 0
    /\ ioAfterStop = FALSE
    /\ prLog = NoPrLog
    /\ io = NoIo
    /\ sendLog = NoSend
    /\ dev = Built(DefaultOptions, DefaultOptions, "none", "none")

NextOpts ==
    \/ SetName
    \/ SetBaudRate
    \/ SetDataBits
    \/ SetFlowControl
    \/ SetParity
    \/ SetStopBits
    \/ SetTimeout

SpecOpts == InitOpts /\ [][NextOpts]_vars

----------------------------------------------------------------------------
(* Properties of the writer path *)

\* the entry in flight: tty_write's local while it runs, State.writing otherwise
InFlight == IF current # NoWriting THEN current ELSE writing

\* the bytes of the entry in flight that no write has accepted yet
InFlightRest == IF InFlight = NoWriting THEN <<>> ELSE remaining_bytes(InFlight)

\* C1: the bytes the device accepted, then the unwritten rest of the entry in
\* flight, then the queued entries, are the payloads of the Input messages
\* consumed so far, in consumption order: nothing is retransmitted, skipped or
\* reordered, whatever the writes return.
C1_WriteOrder ==
    accepted \o InFlightRest \o Flatten(write_list) = Flatten(InputsOf(consumed))

\* C1 witness: a partial write was followed by WouldBlock, Interrupted or Ok(0)
\* with another entry queued behind it
C1_Witness ==
    /\ writing # NoWriting
    /\ writing.written >= 1
    /\ writing.written < Len(writing.source)
    /\ write_list # <<>>
    /\ accepted # <<>>

----------------------------------------------------------------------------
(* Properties of Shutdown *)

\* C3: once Shutdown has been consumed the loop issues no device read or write
\* and receives no further message, and when its thread has returned the device
\* is not registered with the poller.
C3_ShutdownStopsIO ==
    /\ ~ioAfterStop
    /\ StopSeen => pc \in {"exit", "done"}
    /\ (StopSeen /\ pc = "done") => ~registered

\* C3 witness: the thread returned after a Shutdown that left output pending
C3_Witness ==
    /\ StopSeen
    /\ pc = "done"
    /\ needs_write(writing, write_list)

----------------------------------------------------------------------------
(* Properties of the reader path *)

\* C5: the bytes passed to the parser, followed by the bytes read and not yet
\* parsed, are the bytes the device delivered, in order.
C5_FedIsDelivered == fed \o unprocessed = delivered

\* C6: in one reader-path invocation at most MAX_LOCKED_READ bytes are fed to the
\* parser under the terminal lock.
C6_LockedReadBounded ==
    /\ processed <= MAX_LOCKED_READ
    /\ lastRead.fed <= MAX_LOCKED_READ

\* C8: an invocation whose first read returns 0 bytes returns Ok at once: no
\* try-lock, no forced lock, nothing fed to the parser, no wake notification.
C8_ZeroReadReturns ==
    /\ rd.first # "zero"
    /\ lastRead.first = "zero" =>
        /\ lastRead.res = "Ok"
        /\ ~lastRead.tried
        /\ ~lastRead.forced
        /\ lastRead.fed = 0
        /\ ~lastRead.woke

\* C8 witness: such an invocation has returned while the consumer held the
\* terminal and the parser had a synchronized update pending
C8_Witness ==
    /\ lastRead.first = "zero"
    /\ pc = "dispatchW"
    /\ dataHolder = "consumer"
    /\ parser.pending

----------------------------------------------------------------------------
(* Properties of PeekableReceiver (SpecPR) *)

IdsOf(msgs) == [i \in DOMAIN msgs |-> msgs[i].id]

\* the messages the receiver holds: the peeked one, then the channel
Held == IF peeked = NoMsg THEN chan ELSE << peeked >> \o chan

\* C9: after a peek returned a message, further peeks return it and the next recv
\* returns it; messages come out in the order sent, none lost, none twice.
C9_PeekIdempotentFifo ==
    /\ prLog.lastPeek # NoMsg =>
        /\ Peek(peeked, chan, senders).res = prLog.lastPeek
        /\ Recv(peeked, chan, senders).res = prLog.lastPeek
    /\ IdsOf(prLog.got \o Held) = [i \in 1..nSent |-> i]

\* C9 witness: a message was received and the next one has been peeked
C9_Witness ==
    /\ pc = "harness"
    /\ prLog.got # <<>>
    /\ prLog.lastPeek # NoMsg

\* C10: recv on a disconnected channel (no sender, nothing buffered or peeked)
\* panics; on a merely empty channel it returns None.
C10_RecvPanicsOnDisconnect ==
    /\ (prLog.op = "recv" /\ prLog.pre = "disconnected") =>
            (prLog.res = Panic /\ pc = "panicked")
    /\ (prLog.op = "recv" /\ prLog.pre = "empty") =>
            (prLog.res = NoMsg /\ pc = "harness")

\* C10 witness: recv panicked after every message had been received
C10_Witness ==
    /\ pc = "panicked"
    /\ prLog.pre = "disconnected"
    /\ prLog.got # <<>>

----------------------------------------------------------------------------
(* Temporal properties of the loop *)

Stopped == {"exit", "done", "panicked"}

\* every message sent so far: consumed, peeked or still in the channel
AllSent == consumed \o Held

EmptyInputSent == \E i \in DOMAIN AllSent : AllSent[i].t = "Input" /\ AllSent[i].d = <<>>

ShutdownSent == \E i \in DOMAIN AllSent : AllSent[i].t = "Shutdown"

\* C2: the bytes of an Input sent to a running loop are eventually all accepted
\* by the device, unless the loop stops (a fatal error, a Shutdown) or a device
\* read fails; stated for runs in which every Input payload is non-empty.
C2_InputEventuallyWritten ==
    (nBytes > Len(accepted) /\ pc \notin Stopped)
        ~> \/ Len(accepted) = nBytes
           \/ pc \in Stopped
           \/ lastRead.res = "Err"
           \/ EmptyInputSent

\* C4: after a Shutdown is sent the loop thread eventually completes.
C4_ShutdownEventuallyStops == ShutdownSent ~> (pc \in {"done", "panicked"})

\* C7: between two arrivals of data there is at most one forced flush (with its
\* wake notification), after which no synchronized update is pending, so the wait
\* has no timeout and cannot return without events again; and a wait with an
\* update pending leads to the flush unless a readiness event ends the wait or
\* the loop stops.
C7_SingleFlush ==
    /\ [](flushes <= 1 /\ (flushes = 1 => ~parser.pending))
    /\ (pc = "poll" /\ parser.pending)
          ~> (~parser.pending \/ (pc = "woke" /\ events # <<>>) \/ pc \in Stopped)

\* C7 witness: the flush has happened and the loop waits again, a message having
\* been drained in between
C7_Witness ==
    /\ flushes = 1
    /\ pc = "poll"
    /\ consumed # <<>>
    /\ fed # <<>>

----------------------------------------------------------------------------
(* Failures of the device, the poller and the registry *)

\* results that are transient: the loop goes on
Transient(f) ==
    \/ f.k \in {"WouldBlock", "Interrupted"} /\ f.op \in {"read", "write"}
    \/ f.k = "Interrupted" /\ f.op = "poll"
    \/ f.k = "EIO" /\ f.op = "read" /\ TargetOsLinux

\* a failed call that is not transient
Fatal(f) == f # NoIo /\ f.k \notin {"Ok", "Zero"} /\ ~Transient(f)

\* C11: after a read, write, poll, registration or re-registration failure that
\* is not transient the loop has left the event loop and its thread returns the
\* loop object and State (it does not panic); once the thread has returned the
\* device is not registered with the poller.
C11_FatalFailureReturnsState ==
    /\ Fatal(io) => pc \in {"exit", "done"}
    /\ pc = "done" => ~registered

\* C12: a step in which a read or a write returned WouldBlock or Interrupted, the
\* wait returned Interrupted, or (on Linux) a read returned EIO leaves the loop
\* running, and leaves the write queue and the entry in flight, cursor included,
\* as they were; the loop then reaches a further wait unless a later failure that
\* is not transient, or a Shutdown, stops it first.
C12_TransientKeepsLoop ==
    /\ [][ Transient(io') =>
              /\ pc' \notin Stopped
              /\ write_list' = write_list
              /\ InFlight' = InFlight ]_vars
    /\ Transient(io) ~> (pc = "poll" \/ pc \in Stopped)

\* C12 witness: a write returned WouldBlock or Interrupted after a partial write,
\* with another entry queued
C12_Witness ==
    /\ Transient(io)
    /\ io.op = "write"
    /\ writing # NoWriting
    /\ writing.written >= 1
    /\ write_list # <<>>

----------------------------------------------------------------------------
(* Delivery of the control messages *)

\* C13: the messages consumed, followed by those the receiver still holds, are the
\* messages sent, each once and in order; and every message sent is eventually
\* consumed, unless the loop stops first.
C13_SentIsConsumedOnce ==
    /\ [](IdsOf(consumed \o Held) = [i \in 1..nSent |-> i])
    /\ \A i \in 1..MaxMsgs : (nSent >= i) ~> (Len(consumed) >= i \/ pc \in Stopped)

----------------------------------------------------------------------------
(* The State returned by the loop thread *)

\* the bytes of the consumed Input messages that the device has not accepted
PendingBytes == Len(Flatten(InputsOf(consumed))) - Len(accepted)

\* C14: when the loop thread has returned, the State it hands back reports
\* pending output (needs_write) exactly when some consumed Input byte has not
\* been accepted by the device.
C14_ReturnedStateTellsPending ==
    pc = "done" => (needs_write(writing, write_list) <=> PendingBytes > 0)

----------------------------------------------------------------------------
(* The terminal lock *)

\* the worker holds the lease or the terminal lock, or waits for one of them: for
\* the lease (line 138), the forced lock (line 165) or the fair lock (line 288)
WorkerLocking ==
    \/ nextHolder = "worker"
    \/ dataHolder = "worker"
    \/ pc \in {"dispatch", "readlock", "flush"}

----------------------------------------------------------------------------
(* SerialEventLoopSender::send *)

\* a send is within the bounds of the model
SendInBounds == senders > LoopSenders /\ nSent < MaxMsgs /\ nSent + Len(delivered) < MaxInputs

\* a send returned Ok: the receiver was alive and the message was appended to the
\* channel; nothing of the loop changed
SentOk ==
    nSent' # nSent =>
        /\ RxAlive
        /\ sendLog'.res = "Ok"
        /\ chan' = Append(chan, chan'[Len(chan')])
        /\ chan'[Len(chan')].id = nSent'
        /\ pc' = pc

\* a send returned Err: the receiver was dropped, the error carries the message
\* and nothing was buffered
SentErr ==
    (sendLog' # sendLog /\ sendLog'.res = "Err") =>
        /\ ~RxAlive
        /\ IsMsg(sendLog'.msg)
        /\ chan' = chan
        /\ nSent' = nSent

\* C16: a send can return wherever the loop thread is; it returns Ok only with the
\* receiver alive and the message appended to the channel, and Err only with the
\* receiver dropped, the error carrying the message and nothing being buffered;
\* it changes nothing of the loop.
C16_SendNeverBlocks ==
    /\ [](SendInBounds => ENABLED Send)
    /\ [][SentOk /\ SentErr]_vars

\* C16 witness: a send returned an error carrying its message after the loop
\* thread had panicked, earlier sends having returned Ok
C16_Witness ==
    /\ sendLog.res = "Err"
    /\ sendLog.msg.t = "Input"
    /\ pc = "panicked"
    /\ nSent > 0

----------------------------------------------------------------------------
(* Properties of opening the device (SpecOpen) *)

\* C17: when the path cannot be opened, serial_tty::new and the patched open
\* return an error to the caller: they do not panic and produce no handle.
C17_OpenFailureIsError ==
    (dev.phase # "closed" /\ dev.entry \in {"new", "patched"} /\ dev.path # "ok")
        => (dev.result = "Err" /\ dev.owners = {})

\* the settings open applies from the configuration
AppliedFields == {"parity", "flow_control", "data_bits", "stop_bits", "baud_rate"}

\* C18: when the patched open returns a handle, parity, flow control, data bits,
\* stop bits and baud rate in effect on the device are the requested ones: a
\* difference makes open return an error.
C18_MismatchIsError ==
    (dev.entry = "patched" /\ dev.result = "handle")
        => \A f \in AppliedFields :
              \/ dev.actual[f] = dev.req[f]
              \/ f = "baud_rate" /\ dev.req.baud_rate = 0    \* no speed requested

\* C19: the descriptor of an opened device has one owning object, and it is
\* closed once when the handle is dropped, never twice.
C19_SingleOwnerClosedOnce ==
    /\ Cardinality(dev.owners) <= 1
    /\ dev.closes <= 1
    /\ dev.phase = "dropped" => dev.closes = 1

----------------------------------------------------------------------------
(* Resize *)

\* the messages consumed by this step
JustConsumed == SubSeq(consumed', Len(consumed) + 1, Len(consumed'))

C21_ZeroBaudKeepsSpeed ==
    (dev.entry = "patched" /\ dev.result = "handle") =>
        /\ dev.req.baud_rate = 0 => dev.actual.baud_rate = dev.before.baud_rate
        /\ dev.req.baud_rate > 0 => dev.wrote = dev.req.baud_rate

\* C22: every setter of SerialTtyOptions returns options that differ from its
\* input in the named field only, which holds the argument; setters of different
\* fields commute, and of two calls of one setter the later one wins.
C22_SettersTouchOneField ==
    dev.phase = "options" =>
        /\ dev.field # "none" =>
              /\ dev.o[dev.field] = dev.value
              /\ \A g \in OptionFields \ {dev.field} : dev.o[g] = dev.prev[g]
        /\ \A f \in OptionFields, g \in OptionFields :
              \A v \in ValuesOf(f), w \in ValuesOf(g) :
                 /\ f # g => SetField(SetField(dev.o, f, v), g, w)
                                = SetField(SetField(dev.o, g, w), f, v)
                 /\ f = g => SetField(SetField(dev.o, f, v), g, w) = SetField(dev.o, g, w)

\* a setter has changed its field on options that other setters had changed before
C22_Witness ==
    /\ dev.phase = "options"
    /\ dev.field = "flow_control"
    /\ dev.o.flow_control # dev.prev.flow_control
    /\ dev.o.parity # DefaultOptions.parity
    /\ dev.o.baud_rate # DefaultOptions.baud_rate

\* the positions of the worker inside the for loop over the readiness events
InDispatch == {"dispatch", "read", "readlock", "dispatchW", "write"}

\* C23: the for loop over the readiness events is entered from the drain only, and
\* the drain that enters it has consumed every message that was in the channel
\* when it began, in channel order, and has appended the payloads of the Inputs
\* among them to the write queue in that order; so no device read or write of the
\* iteration precedes them.
C23_DrainBeforeIO ==
    [][ /\ (pc' = "dispatch" /\ pc \notin InDispatch) => pc = "drain"
        /\ (pc = "drain" /\ pc' = "dispatch") =>
              /\ peeked' = NoMsg
              /\ chan' = <<>>
              /\ consumed' = consumed \o Held
              /\ write_list' = write_list \o InputsOf(Held)
        /\ (delivered' # delivered \/ accepted' # accepted) => pc \in InDispatch ]_vars

\* bytes of an Input are written in the iteration that drained it: write readiness
\* has not been asked for since, and another message was drained along with it
C23_Witness ==
    /\ pc = "write"
    /\ ~interest
    /\ accepted # <<>>
    /\ Len(consumed) >= 2
    /\ consumed[Len(consumed)].t = "Input"

\* C24: when the loop waits again after an iteration, the device is registered
\* for write readiness if and only if the write queue is non-empty or a partial
\* write is in flight, and it is registered for read readiness.
C24_WriteInterestTracksQueue ==
    (pc = "poll" /\ consumed # <<>>) =>
        /\ "WRITABLE" \in RegisteredFor <=> needs_write(writing, write_list)
        /\ "READABLE" \in RegisteredFor

\* C25: the device is re-registered exactly in the step that ends an iteration
\* (the worker leaves "rereg") in which needs_write differs from the tracked flag, and that step sets the flag
\* to needs_write; no other step (an iteration with the value unchanged, a timeout
\* flush, an interrupted wait) re-registers or changes the flag. The flag is false
\* before the first wait and equals needs_write whenever the loop waits.
C25_ReregisterOnChange ==
    /\ [][ /\ (io'.op = "reregister" /\ io' # io)
                <=> /\ pc = "rereg" /\ pc' # "rereg"
                    /\ needs_write(writing, write_list) # interest
           /\ interest' # interest
                => (pc = "rereg" /\ interest' = needs_write(writing, write_list)) ]_vars
    /\ [](pc = "init" => ~interest)
    /\ [](pc = "poll" => interest = needs_write(writing, write_list))

\* the queue has been written out and the re-registration that followed has set
\* the flag back to false
C25_Witness ==
    /\ pc = "poll"
    /\ io = [op |-> "reregister", k |-> "Ok"]
    /\ ~interest
    /\ accepted # <<>>

\* C26: an invocation of tty_read emits one wake notification if it processed at
\* least one byte and the parser's count of synchronized bytes is below the number
\* of bytes it processed, and none otherwise.
C26_WakeIffUnsyncedBytes ==
    lastRead.first # "none" =>
        (lastRead.woke <=> (lastRead.fed > 0 /\ sync_bytes_count(parser) < lastRead.fed))

\* C27: tty_read starts to wait in lock_unfair only in a step in which its
\* try-lock failed (a consumer holds the terminal) and the unprocessed bytes have
\* reached READ_BUFFER_SIZE; a try-lock that fails below that size is followed by
\* another device read; and from the step that gives tty_read the lock until it
\* returns it holds the lock and does not wait for it.
C27_ForcedLockOnlyAtCap ==
    [][ /\ (pc' = "readlock" /\ pc # "readlock") =>
              /\ pc = "read"
              /\ dataHolder = "consumer"
              /\ Len(unprocessed') >= READ_BUFFER_SIZE
        /\ (pc = "read" /\ dataHolder = "consumer" /\ rd'.tried
                /\ Len(unprocessed') < READ_BUFFER_SIZE) => pc' = "read"
        /\ dataHolder = "worker" =>
              /\ pc = "read"
              /\ pc' # "readlock"
              /\ (pc' = "read" /\ dataHolder' = "worker")
                    \/ (pc' # "read" /\ dataHolder' = "none") ]_vars

\* tty_read waits in lock_unfair with a full buffer while a consumer holds the
\* terminal
C27_Witness ==
    /\ pc = "readlock"
    /\ dataHolder = "consumer"
    /\ Len(unprocessed) = READ_BUFFER_SIZE
    /\ unprocessed = delivered
    /\ rd.tried /\ rd.forced

\* the worker thread has returned or panicked
Terminated == {"done", "panicked"}

\* C28 as stated: outside the readiness wait and the forced lock the worker always
\* has a step it can take, whatever the consumers hold.
C28_BlocksOnlyInWaitAndForcedLock ==
    pc \notin ({"poll", "readlock"} \cup Terminated) => ENABLED Worker

\* C28 amended: the worker can wait on a consumer in the lease at the entry to
\* tty_read (a readable event), in the fair lock of the timeout flush and in the
\* forced lock, which it takes at the buffer cap only; wherever else it is it has
\* a step it can take, and where it waits it waits for a consumer.
C28_BlockingPoints ==
    /\ pc \notin ({"poll", "dispatch", "flush", "readlock"} \cup Terminated)
          => ENABLED Worker
    /\ (pc = "dispatch" /\ ~Readable(Head(events))) => ENABLED Worker
    /\ pc = "readlock" => Len(unprocessed) >= READ_BUFFER_SIZE
    /\ (pc \in {"dispatch", "flush", "readlock"} /\ ~ENABLED Worker)
          => (nextHolder = "consumer" \/ dataHolder = "consumer")

\* the timeout has fired and the worker waits in terminal.lock() for the consumer
C28_Witness ==
    /\ pc = "flush"
    /\ dataHolder = "consumer"
    /\ parser.pending
    /\ ~ENABLED Worker

\* C29: a pending synchronized update is eventually ended, by the parser or by the
\* timeout flush, unless the loop stops first; also when readiness events or
\* control messages keep arriving.
C29_SyncEventuallyEnded ==
    parser.pending ~> (~parser.pending \/ pc \in Stopped)

\* C30: while the event at hand carries an unknown token ("U") or neither flag
\* ("N"), no step reads from or writes to the device, takes the lease or the
\* terminal lock for the worker, changes the write queue, the entry in flight or
\* the parser, or leaves the loop; the worker goes from the
\* readable check to the writable check and from there to the next event, or,
\* after the last event, to the end of the iteration, which leads to the wait.
C30_UnknownEventIgnored ==
    [][ /\ (pc \in {"dispatch", "dispatchW"} /\ events # <<>>
                /\ Head(events) \in {"N", "U"}) =>
              /\ UNCHANGED << queueVars, parser, delivered, accepted, fed >>
              /\ nextHolder' # "worker" /\ dataHolder' # "worker"
              /\ pc = "dispatch" => pc' \in {"dispatch", "dispatchW"}
              /\ (pc = "dispatchW" /\ pc' # pc) =>
                    /\ events' = Tail(events)
                    /\ pc' = IF events' = <<>> THEN "rereg" ELSE "dispatch"
        /\ (pc = "rereg" /\ pc' # pc /\ needs_write(writing, write_list) = interest)
              => pc' = "poll" ]_vars

\* an event with an unknown token is looked at while output is queued and a
\* synchronized update is pending
C30_Witness ==
    /\ pc = "dispatchW"
    /\ Head(events) = "U"
    /\ write_list # <<>>
    /\ parser.pending

----------------------------------------------------------------------------
(* Zero-length writes and entries *)

\* C31: the step in which a device write returns 0 bytes ends tty_write for this
\* event without leaving the loop: the entry becomes the entry in flight again
\* with its cursor unchanged, no byte is accepted, the queue is as it was, and the
\* worker goes on to the next event or to the end of the iteration.
C31_ZeroWriteEndsEvent ==
    [][ (pc = "write" /\ io' = ZeroWrite) =>
            /\ writing' = current
            /\ current' = NoWriting
            /\ write_list' = write_list
            /\ accepted' = accepted
            /\ events' = Tail(events)
            /\ pc' = IF events' = <<>> THEN "rereg" ELSE "dispatch" ]_vars

\* a write has returned 0 after a partial write of a non-empty entry, with
\* another entry queued
C31_Witness ==
    /\ io = ZeroWrite
    /\ writing # NoWriting
    /\ writing.written >= 1
    /\ writing.written < Len(writing.source)
    /\ write_list # <<>>

\* C32: a call of notify with no bytes sends nothing, and a call with bytes sends
\* one Input that carries them (to a loop whose receiver lives); so with the
\* notifier as the only producer no Input without bytes is in the channel, and no
\* entry without bytes is in the write queue or in flight.
C32_NotifySkipsEmpty ==
    /\ [][ sendLog' # sendLog =>
              IF sendLog'.msg.d = <<>>
              THEN chan' = chan /\ peeked' = peeked /\ nSent' = nSent
              ELSE /\ sendLog'.res = "Ok" => chan' = Append(chan, sendLog'.msg)
                   /\ sendLog'.res = "Err" => chan' = chan
                   /\ sendLog'.res # "none" ]_vars
    /\ [](/\ \A i \in DOMAIN Held : Held[i].t = "Input" /\ Held[i].d # <<>>
          /\ \A i \in DOMAIN write_list : write_list[i] # <<>>
          /\ writing # NoWriting => writing.source # <<>>
          /\ current # NoWriting => current.source # <<>>)

\* notify was called with no bytes while an Input it sent before was being written
C32_Witness ==
    /\ sendLog.res = "none"
    /\ sendLog.msg.d = <<>>
    /\ consumed # <<>>
    /\ accepted # <<>>
    /\ chan = <<>>

\* C33: whenever the loop waits for readiness the entry in flight, if there is
\* one, is unfinished: its cursor is below the length of its buffer.
C33_InFlightIsUnfinished ==
    (pc = "poll" /\ writing # NoWriting) => ~finished(writing)

\* C34: an entry taken from the write queue is eventually completed and removed,
\* and the entries queued behind it after it, so that nothing is in flight and the
\* queue is empty; unless the loop stops. Runs in which a device read fails are
\* left aside, so a violation is one of the writer path alone.
C34_TakenEntryCompletes ==
    (InFlight # NoWriting /\ pc \notin Stopped)
        ~> \/ InFlight = NoWriting /\ write_list = <<>>
           \/ pc \in Stopped
           \/ lastRead.res = "Err"

----------------------------------------------------------------------------
(* Return paths of tty_read *)

\* C35: when an invocation of tty_read returns, by whatever path, no byte that one
\* of its reads returned is left unparsed.
C35_NoByteLeftOnReturn == lastRead.dropped = 0

----------------------------------------------------------------------------
(* The channel while producers drop their senders *)

\* C36: the loop object holds a Sender of its own channel, so the channel always
\* has a sender; neither the drain nor the peek before the timeout flush ends in
\* the panic of recv, the only panic of the thread is that of a failed
\* re-registration, and the step that drops an external sender changes neither the
\* position of the loop nor the result of its last call.
C36_LoopKeepsChannelOpen ==
    /\ [](senders >= 1)
    /\ [](pc = "panicked" => io = [op |-> "reregister", k |-> "Other"])
    /\ [][ /\ pc \in {"woke", "drain"} => pc' # "panicked"
           /\ senders' < senders => (pc' = pc /\ io' = io /\ sendLog' = sendLog) ]_vars

\* every external sender has been dropped and the drain is about to receive from
\* the empty channel
C36_Witness ==
    /\ senders = LoopSenders
    /\ pc = "drain"
    /\ chan = <<>>
    /\ peeked = NoMsg
    /\ consumed # <<>>

----------------------------------------------------------------------------
(* What the worker holds outside tty_read *)

\* C37: outside tty_read, and so whenever it waits for readiness, the worker holds
\* neither the lease nor the terminal lock: every return of tty_read and the end
\* of the timeout flush release them.
C37_NothingHeldInWait ==
    pc \notin {"read", "readlock"} => (nextHolder # "worker" /\ dataHolder # "worker")

\* the loop waits after tty_read has parsed bytes under the lock and a timeout
\* flush has followed, and the consumer holds the terminal
C37_Witness ==
    /\ pc = "poll"
    /\ fed # <<>>
    /\ flushes = 1
    /\ dataHolder = "consumer"

----------------------------------------------------------------------------
(* Termination and bounds of tty_read *)

\* C38: an invocation of tty_read does not go on once its processed count has
\* reached MAX_LOCKED_READ, and every invocation ends, the consumer releasing the
\* terminal in finite time.
C38_ReadTerminates ==
    /\ [](pc \in {"read", "readlock"} => processed < MAX_LOCKED_READ)
    /\ (pc \in {"read", "readlock"}) ~> (pc \notin {"read", "readlock"})

\* an invocation that had to wait in the forced lock has returned at the cap
C38_Witness ==
    /\ pc = "dispatchW"
    /\ lastRead.res = "Ok"
    /\ lastRead.forced
    /\ lastRead.fed >= MAX_LOCKED_READ

\* C39: the unprocessed bytes never exceed READ_BUFFER_SIZE, and a device read is
\* issued only with room left in the buffer; a step of tty_read that leaves the
\* buffer full (its try-lock has failed) goes to the forced lock, not to another
\* read.
C39_UnprocessedInBounds ==
    /\ [](Len(unprocessed) <= READ_BUFFER_SIZE)
    /\ [](pc = "read" => Len(unprocessed) < READ_BUFFER_SIZE)
    /\ [][ (pc = "read" /\ Len(unprocessed') = READ_BUFFER_SIZE)
              => pc' = "readlock" ]_vars

\* the buffer is full, the forced lock is awaited and the consumer has just
\* released the terminal
C39_Witness ==
    /\ pc = "readlock"
    /\ Len(unprocessed) = READ_BUFFER_SIZE
    /\ dataHolder = "none"
    /\ processed = 0

-----------------------------------------------------------------------------
(* Descriptor of a failed open (SpecOpen) *)

\* C40: when the patched open returns an error after the device file has been
\* opened (exclusive-access ioctl, read-back mismatch, non-blocking flag or
\* termios failure), the descriptor it opened has been closed: nothing owns it
\* and it was closed once, so a failed open leaves no open descriptor behind.
C40_FailedOpenClosesDescriptor ==
    (dev.entry = "patched" /\ dev.result = "Err" /\ dev.path = "ok")
        => (dev.owners = {} /\ dev.closes = 1)

============================================================================
